---- MODULE Spec2Model ----
(***************************************************************************)
(* bin2vid: a folder is archived, compressed with zstd, padded to whole    *)
(* RGB24 frames and stored in a lossless FFV1 video; decode reverses it.   *)
(* The model follows src/bin2vid.py: one invocation of main() is a run,    *)
(* each step of the pipeline that has a side effect of its own is an       *)
(* action, and every try/finally of the source is an action of its own.    *)
(***************************************************************************)
EXTENDS Integers, Sequences, FiniteSets, TLC

(***************************************************************************)
(* Frame geometry.  The source has WIDTH = 1920 and HEIGHT = 1080, a frame *)
(* of 6 220 800 bytes; byte streams of that length cannot be enumerated,   *)
(* so the model scales the geometry down and keeps the arithmetic         *)
(* (BYTES_PER_FRAME = WIDTH * HEIGHT * 3).  WIDTH sets the scale.          *)
(***************************************************************************)
WIDTH == 1
HEIGHT == 1
PIXELS_PER_FRAME == WIDTH * HEIGHT
BYTES_PER_FRAME == PIXELS_PER_FRAME * 3

\* Longest byte stream the model enumerates (zstd output, video content).
MaxLen == 6
\* Largest frame count a hand-edited metadata file names.
MaxMetaFrames == 2

\* Byte values: the padding byte 0 and one non-zero byte.
Byte == {0, 255}
Streams == UNION {[1..n -> Byte] : n \in 0..MaxLen}

(***************************************************************************)
(* Files.  A path holds no file (Absent) or a file with a content.         *)
(***************************************************************************)
Absent == <<>>
File(c) == <<c>>
Exists(f) == f # Absent
Content(f) == f[1]

\* if p.exists(): p.unlink()
UnlinkKept(f) == f
Unlink(f) == Absent

(***************************************************************************)
(* Text of the metadata file: a sequence of characters.                    *)
(***************************************************************************)
DigitChars == <<"0", "1", "2", "3", "4", "5", "6", "7", "8", "9">>
IsDigit(c) == \E d \in 1..10 : DigitChars[d] = c
DigitVal(c) == (CHOOSE d \in 1..10 : DigitChars[d] = c) - 1
IsSpace(c) == c \in {" ", "\n"}

\* f"{n}" for a non-negative int
RECURSIVE Str(_)
Str(n) == IF n < 10 THEN <<DigitChars[n + 1]>>
          ELSE Str(n \div 10) \o <<DigitChars[(n % 10) + 1]>>

\* f"{original_size}\n{num_frames}\n"
MetaTextSizeOnly(original_size, num_frames) == Str(original_size) \o <<"\n">>
MetaText(original_size, num_frames) ==
    Str(original_size) \o <<"\n">> \o Str(num_frames) \o <<"\n">>

\* str.strip()
RECURSIVE LStrip(_)
LStrip(s) == IF s # <<>> /\ IsSpace(Head(s)) THEN LStrip(Tail(s)) ELSE s
RECURSIVE RStrip(_)
RStrip(s) == IF s # <<>> /\ IsSpace(s[Len(s)])
             THEN RStrip(SubSeq(s, 1, Len(s) - 1)) ELSE s
Strip(s) == RStrip(LStrip(s))

\* str.split('\n')
RECURSIVE Split(_)
Split(s) ==
    IF \E i \in 1..Len(s) : s[i] = "\n"
    THEN LET i == CHOOSE j \in 1..Len(s) :
                    s[j] = "\n" /\ \A k \in 1..(j - 1) : s[k] # "\n"
         IN <<SubSeq(s, 1, i - 1)>> \o Split(SubSeq(s, i + 1, Len(s)))
    ELSE <<s>>

RECURSIVE DigitsVal(_)
DigitsVal(s) == IF s = <<>> THEN 0
                ELSE 10 * DigitsVal(SubSeq(s, 1, Len(s) - 1)) + DigitVal(s[Len(s)])

\* int(text): <<v>> when text is an optionally signed decimal integer
\* surrounded by whitespace, <<>> when int() raises ValueError.
IntOf(text) ==
    LET t == Strip(text)
        neg == t # <<>> /\ Head(t) = "-"
        ds == IF neg THEN Tail(t) ELSE t
    IN IF ds # <<>> /\ \A i \in 1..Len(ds) : IsDigit(ds[i])
       THEN <<IF neg THEN 0 - DigitsVal(ds) ELSE DigitsVal(ds)>>
       ELSE <<>>

\* lines = meta.read().strip().split('\n')
MetaLines(text) == Split(Strip(text))
\* original_size = int(lines[0]): <<v>>, or <<>> when it raises
ReadOriginalSize(text) == IntOf(MetaLines(text)[1])

(***************************************************************************)
(* The framing layer.                                                      *)
(***************************************************************************)
\* math.ceil(original_size / BYTES_PER_FRAME).  The source divides in
\* floating point, which is exact for every size below 2^53 bytes.
NumFramesFloorPlusOne(original_size) == original_size \div BYTES_PER_FRAME + 1
NumFrames(original_size) ==
    IF original_size % BYTES_PER_FRAME = 0
    THEN original_size \div BYTES_PER_FRAME
    ELSE original_size \div BYTES_PER_FRAME + 1

\* b'\x00' * n (empty when n <= 0)
Zeros(n) == IF n <= 0 THEN <<>> ELSE [i \in 1..n |-> 0]

\* b'\x00' * (BYTES_PER_FRAME * num_frames - original_size)
PaddingWholeFrame(original_size, num_frames) ==
    Zeros(BYTES_PER_FRAME - (original_size % BYTES_PER_FRAME))
Padding(original_size, num_frames) ==
    Zeros(BYTES_PER_FRAME * num_frames - original_size)

\* data[:original_size], with Python's meaning of a negative bound
Min(a, b) == IF a < b THEN a ELSE b
Max(a, b) == IF a > b THEN a ELSE b
TruncateOneShort(data, original_size) ==
    SubSeq(data, 1, Min(Max(original_size - 1, 0), Len(data)))
Truncate(data, original_size) ==
    IF original_size >= 0
    THEN SubSeq(data, 1, Min(original_size, Len(data)))
    ELSE SubSeq(data, 1, Max(Len(data) + original_size, 0))

(***************************************************************************)
(* State of one invocation of main() and of the files it works on.         *)
(***************************************************************************)
VARIABLES
    cmd,            \* args.command: "encode", "decode" or "none"
    tools,          \* the tools shutil.which finds
    pc,             \* position in main() and the function it called
    exc,            \* an exception is propagating
    exitStatus,     \* exit status of the process, -1 while it runs
    tarFile,        \* the mkstemp(suffix='.tar') file
    zstFile,        \* temp_zst: <prefix>.zst or <output-folder>.zst
    rawFile,        \* the NamedTemporaryFile(suffix='.rgb') file
    metaFile,       \* <prefix>.meta
    mkvFile,        \* <prefix>.mkv
    outFolder,      \* the restored folder
    data, original_size, num_frames, padded, restored,   \* locals
    trace,          \* the steps this run has taken, in order
    written,        \* the paths this run created or wrote
    start,          \* the files as this run found them
    zstOut,         \* what zstd produced in the encode run, if it ran
    after           \* what ran before this run on the same prefix

files == <<tarFile, zstFile, rawFile, metaFile, mkvFile, outFolder>>
locals == <<data, original_size, num_frames, padded, restored>>
vars == <<cmd, tools, pc, exc, exitStatus, files, locals, trace, written,
          start, zstOut, after>>

required_tools == {"ffmpeg", "zstd"}

\* missing_tools of check_tools
MissingToolsFfmpegOnly(available) == {t \in {"ffmpeg"} : t \notin available}
MissingTools(available) == {t \in required_tools : t \notin available}

\* An archive left at the prefix by an earlier encode.
OldMeta == MetaText(1, 1)
OldVideo == <<255, 0, 0>>
OldZst == <<255>>

\* Metadata files a decode run may find: written by encode, cut to one
\* line, with a line added, empty, not a number, negative.
MetaInputs ==
    {MetaText(L, N) : L \in 0..MaxLen, N \in 0..MaxMetaFrames}
    \cup {Str(L) \o <<"\n">> : L \in 0..MaxLen}
    \cup {MetaText(L, NumFrames(L)) \o <<"x", "\n">> : L \in 0..MaxLen}
    \cup {<<>>, <<"x", "\n", "1", "\n">>, <<"-", "1", "\n", "1", "\n">>,
          <<"1", "\n", "x", "\n">>}

Init ==
    /\ cmd \in {"encode", "decode", "none"}
    /\ tools \in SUBSET required_tools
    /\ pc = "main"
    /\ exc = FALSE
    /\ exitStatus = -1
    /\ tarFile = Absent
    /\ rawFile = Absent
    /\ zstFile \in {Absent, File(OldZst)}
    /\ IF cmd = "decode"
       THEN /\ metaFile \in {Absent} \cup {File(m) : m \in MetaInputs}
            /\ mkvFile \in {Absent} \cup {File(v) : v \in Streams}
       ELSE /\ metaFile \in {Absent, File(OldMeta)}
            /\ mkvFile \in {Absent, File(OldVideo)}
    /\ outFolder = "absent"
    /\ data = <<>> /\ original_size = 0 /\ num_frames = 0
    /\ padded = <<>> /\ restored = <<>>
    /\ trace = <<>>
    /\ written = {}
    /\ start = files
    /\ zstOut = Absent
    /\ after = "nothing"

Step(name) == trace' = Append(trace, name)
Touch(paths) == written' = written \cup paths

\* Leaving a try/finally: a propagating exception goes on to the caller's
\* handler, otherwise the statement after the try runs.
PropagateSwallowed(raised, handler, following) == following
Propagate(raised, handler, following) == IF raised THEN handler ELSE following

(***************************************************************************)
(* main(): tool check and dispatch.                                        *)
(***************************************************************************)
\* try: check_tools() except RuntimeError: sys.exit(1)
CheckTools ==
    /\ pc = "main"
    /\ IF MissingTools(tools) # {}
       THEN pc' = "exit" /\ exitStatus' = 1
       ELSE pc' = "dispatch" /\ UNCHANGED exitStatus
    /\ Step("check_tools")
    /\ UNCHANGED <<start, cmd, tools, exc, files, locals, written, zstOut, after>>

\* The first call of the encode branch: compress_folder_to_zst(args.folder, temp_zst)
EncodeEntrySkipsCompress == "encode_read"
EncodeEntry == "compress_mkstemp"

\* if args.command == 'encode' ... elif 'decode' ... else print_help()
Dispatch ==
    /\ pc = "dispatch"
    /\ \/ cmd = "encode" /\ pc' = EncodeEntry /\ UNCHANGED exitStatus
       \/ cmd = "decode" /\ pc' = "decode_mktemp" /\ UNCHANGED exitStatus
       \/ cmd = "none" /\ pc' = "exit" /\ exitStatus' = 0
    /\ UNCHANGED <<start, cmd, tools, exc, files, locals, trace, written, zstOut, after>>

(***************************************************************************)
(* encode: compress_folder_to_zst                                          *)
(***************************************************************************)
\* tempfile.mkstemp(suffix='.tar'), before the try
CompressMkstemp ==
    /\ pc = "compress_mkstemp"
    /\ \/ /\ tarFile' = File("empty")
          /\ Touch({"tar"})
          /\ pc' = "compress_tar"
          /\ UNCHANGED exc
       \/ /\ exc' = TRUE
          /\ pc' = "encode_main_finally"
          /\ UNCHANGED <<tarFile, written>>
    /\ Step("mkstemp_tar")
    /\ UNCHANGED <<start, cmd, tools, exitStatus, zstFile, rawFile, metaFile, mkvFile,
                   outFolder, locals, zstOut, after>>

\* with tarfile.open(temp_tar_path, 'w') as tar: tar.add(...)
CompressTar ==
    /\ pc = "compress_tar"
    /\ \/ /\ tarFile' = File("archive")
          /\ pc' = "compress_zstd"
          /\ UNCHANGED exc
       \/ /\ tarFile' = File("partial")
          /\ exc' = TRUE
          /\ pc' = "compress_finally"
    /\ Step("tar")
    /\ UNCHANGED <<start, cmd, tools, exitStatus, zstFile, rawFile, metaFile, mkvFile,
                   outFolder, locals, written, zstOut, after>>

\* subprocess.run([zstd, '-19', ..., '-o', output_file, '-f'], check=True)
CompressZstd ==
    /\ pc = "compress_zstd"
    /\ \/ \E b \in Streams :
             /\ zstFile' = File(b)
             /\ zstOut' = File(b)
             /\ Touch({"zst"})
             /\ UNCHANGED exc
       \/ /\ exc' = TRUE
          /\ \/ UNCHANGED <<zstFile, written>>
             \/ zstFile' = File(<<>>) /\ Touch({"zst"})
          /\ UNCHANGED zstOut
    /\ pc' = "compress_finally"
    /\ Step("zstd")
    /\ UNCHANGED <<start, cmd, tools, exitStatus, tarFile, rawFile, metaFile, mkvFile,
                   outFolder, locals, after>>

\* finally: if temp_tar_path.exists(): temp_tar_path.unlink()
CompressFinally ==
    /\ pc = "compress_finally"
    /\ tarFile' = Unlink(tarFile)
    /\ pc' = Propagate(exc, "encode_main_finally", "encode_read")
    /\ UNCHANGED <<start, cmd, tools, exc, exitStatus, zstFile, rawFile, metaFile,
                   mkvFile, outFolder, locals, trace, written, zstOut, after>>

(***************************************************************************)
(* encode: encode_zst_to_video                                             *)
(***************************************************************************)
\* data = f.read(); original_size; num_frames; padded
EncodePack ==
    /\ pc = "encode_read"
    /\ Exists(zstFile)
    /\ data' = Content(zstFile)
    /\ original_size' = Len(data')
    /\ num_frames' = NumFrames(original_size')
    /\ padded' = data' \o Padding(original_size', num_frames')
    /\ pc' = "encode_raw"
    /\ Step("pack")
    /\ UNCHANGED <<start, cmd, tools, exc, exitStatus, files, restored, written,
                   zstOut, after>>

\* with tempfile.NamedTemporaryFile(suffix='.rgb', delete=False) as temp_raw:
\*     temp_raw.write(padded)
\* This is before the try: when the write raises, the file stays.
EncodeWriteRaw ==
    /\ pc = "encode_raw"
    /\ \/ /\ rawFile' = File(padded)
          /\ Touch({"raw"})
          /\ pc' = "encode_meta"
          /\ UNCHANGED exc
       \/ /\ exc' = TRUE
          /\ pc' = "encode_main_finally"
          /\ \/ UNCHANGED <<rawFile, written>>
             \/ \E k \in 0..Len(padded) :
                   /\ rawFile' = File(SubSeq(padded, 1, k))
                   /\ Touch({"raw"})
    /\ Step("write_raw")
    /\ UNCHANGED <<start, cmd, tools, exitStatus, tarFile, zstFile, metaFile, mkvFile,
                   outFolder, locals, zstOut, after>>

\* with open(meta_file, 'w') as meta: meta.write(f"{original_size}\n{num_frames}\n")
EncodeWriteMeta ==
    /\ pc = "encode_meta"
    /\ \/ /\ metaFile' = File(MetaText(original_size, num_frames))
          /\ Touch({"meta"})
          /\ pc' = "encode_ffmpeg"
          /\ UNCHANGED exc
       \/ /\ exc' = TRUE
          /\ pc' = "encode_finally"
          /\ \/ UNCHANGED <<metaFile, written>>
             \/ metaFile' = File(<<>>) /\ Touch({"meta"})
    /\ Step("write_meta")
    /\ UNCHANGED <<start, cmd, tools, exitStatus, tarFile, zstFile, rawFile, mkvFile,
                   outFolder, locals, zstOut, after>>

\* subprocess.run([ffmpeg, '-f', 'rawvideo', ..., '-c:v', 'ffv1', ...,
\*                 video_file, '-y'], check=True)
\* FFV1 is lossless: the video holds the frames of the raw file.
EncodeFfmpeg ==
    /\ pc = "encode_ffmpeg"
    /\ \/ /\ mkvFile' = File(Content(rawFile))
          /\ Touch({"mkv"})
          /\ UNCHANGED exc
       \/ /\ exc' = TRUE
          /\ \/ UNCHANGED <<mkvFile, written>>
             \/ mkvFile' = File(<<>>) /\ Touch({"mkv"})
    /\ pc' = "encode_finally"
    /\ Step("ffmpeg")
    /\ UNCHANGED <<start, cmd, tools, exitStatus, tarFile, zstFile, rawFile, metaFile,
                   outFolder, locals, zstOut, after>>

\* finally: if raw_file.exists(): raw_file.unlink()
EncodeFinally ==
    /\ pc = "encode_finally"
    /\ rawFile' = Unlink(rawFile)
    /\ pc' = "encode_main_finally"
    /\ UNCHANGED <<start, cmd, tools, exc, exitStatus, tarFile, zstFile, metaFile,
                   mkvFile, outFolder, locals, trace, written, zstOut, after>>

\* main: finally: if temp_zst.exists(): temp_zst.unlink()
\* An exception that reaches the top of main() ends the process with status 1.
EncodeMainFinally ==
    /\ pc = "encode_main_finally"
    /\ zstFile' = Unlink(zstFile)
    /\ pc' = "exit"
    /\ exitStatus' = IF exc THEN 1 ELSE 0
    /\ UNCHANGED <<start, cmd, tools, exc, tarFile, rawFile, metaFile, mkvFile,
                   outFolder, locals, trace, written, zstOut, after>>

(***************************************************************************)
(* decode: decode_video_to_zst                                             *)
(***************************************************************************)
\* with tempfile.NamedTemporaryFile(suffix='.rgb', delete=False) as temp_raw:
\*     raw_file = Path(temp_raw.name)
DecodeMktemp ==
    /\ pc = "decode_mktemp"
    /\ \/ /\ rawFile' = File(<<>>)
          /\ Touch({"raw"})
          /\ pc' = "decode_ffmpeg"
          /\ UNCHANGED exc
       \/ /\ exc' = TRUE
          /\ pc' = "decode_main_finally"
          /\ UNCHANGED <<rawFile, written>>
    /\ Step("mktemp_raw")
    /\ UNCHANGED <<start, cmd, tools, exitStatus, tarFile, zstFile, metaFile, mkvFile,
                   outFolder, locals, zstOut, after>>

\* subprocess.run([ffmpeg, '-i', video_file, '-f', 'rawvideo',
\*                 '-pix_fmt', 'rgb24', raw_file, '-y'], check=True)
\* The first statement of the try: it runs before the metadata is read.
DecodeFfmpeg ==
    /\ pc = "decode_ffmpeg"
    /\ \/ /\ Exists(mkvFile)
          /\ rawFile' = File(Content(mkvFile))
          /\ pc' = "decode_meta"
          /\ UNCHANGED exc
       \/ /\ exc' = TRUE
          /\ pc' = "decode_finally"
          /\ UNCHANGED rawFile
    /\ Step("ffmpeg")
    /\ UNCHANGED <<start, cmd, tools, exitStatus, tarFile, zstFile, metaFile, mkvFile,
                   outFolder, locals, written, zstOut, after>>

\* with open(meta_file, 'r') as meta:
\*     lines = meta.read().strip().split('\n')
\*     original_size = int(lines[0])
DecodeReadMeta ==
    /\ pc = "decode_meta"
    /\ IF Exists(metaFile) /\ ReadOriginalSize(Content(metaFile)) # <<>>
       THEN /\ original_size' = ReadOriginalSize(Content(metaFile))[1]
            /\ pc' = "decode_unpack"
            /\ UNCHANGED exc
       ELSE /\ exc' = TRUE
            /\ pc' = "decode_finally"
            /\ UNCHANGED original_size
    /\ Step("read_meta")
    /\ UNCHANGED <<start, cmd, tools, exitStatus, files, data, num_frames, padded,
                   restored, written, zstOut, after>>

\* data = f.read(); restored = data[:original_size]
DecodeUnpack ==
    /\ pc = "decode_unpack"
    /\ Exists(rawFile)
    /\ data' = Content(rawFile)
    /\ restored' = Truncate(data', original_size)
    /\ pc' = "decode_write"
    /\ Step("unpack")
    /\ UNCHANGED <<start, cmd, tools, exc, exitStatus, files, original_size,
                   num_frames, padded, written, zstOut, after>>

\* with open(output_zst, 'wb') as out: out.write(restored)
DecodeWrite ==
    /\ pc = "decode_write"
    /\ \/ /\ zstFile' = File(restored)
          /\ Touch({"zst"})
          /\ UNCHANGED exc
       \/ /\ exc' = TRUE
          /\ \/ UNCHANGED <<zstFile, written>>
             \/ zstFile' = File(<<>>) /\ Touch({"zst"})
    /\ pc' = "decode_finally"
    /\ Step("write_zst")
    /\ UNCHANGED <<start, cmd, tools, exitStatus, tarFile, rawFile, metaFile, mkvFile,
                   outFolder, locals, zstOut, after>>

\* finally: if raw_file.exists(): raw_file.unlink()
DecodeFinally ==
    /\ pc = "decode_finally"
    /\ rawFile' = Unlink(rawFile)
    /\ pc' = Propagate(exc, "decode_main_finally", "decompress_mkstemp")
    /\ UNCHANGED <<start, cmd, tools, exc, exitStatus, tarFile, zstFile, metaFile,
                   mkvFile, outFolder, locals, trace, written, zstOut, after>>

(***************************************************************************)
(* decode: decompress_zst_to_folder                                        *)
(***************************************************************************)
\* tempfile.mkstemp(suffix='.tar'), before the try
DecompressMkstemp ==
    /\ pc = "decompress_mkstemp"
    /\ \/ /\ tarFile' = File("empty")
          /\ Touch({"tar"})
          /\ pc' = "decompress_zstd"
          /\ UNCHANGED exc
       \/ /\ exc' = TRUE
          /\ pc' = "decode_main_finally"
          /\ UNCHANGED <<tarFile, written>>
    /\ Step("mkstemp_tar")
    /\ UNCHANGED <<start, cmd, tools, exitStatus, zstFile, rawFile, metaFile, mkvFile,
                   outFolder, locals, zstOut, after>>

\* subprocess.run([zstd, '--long=31', '-d', zst_file, '-o', temp_tar, '-f'],
\*                check=True)
DecompressZstd ==
    /\ pc = "decompress_zstd"
    /\ \/ /\ tarFile' = File("archive")
          /\ pc' = "decompress_extract"
          /\ UNCHANGED exc
       \/ /\ exc' = TRUE
          /\ tarFile' \in {tarFile, File("partial")}
          /\ pc' = "decompress_finally"
    /\ Step("zstd")
    /\ UNCHANGED <<start, cmd, tools, exitStatus, zstFile, rawFile, metaFile, mkvFile,
                   outFolder, locals, written, zstOut, after>>

\* output_folder.mkdir(parents=True, exist_ok=True)
\* with tarfile.open(temp_tar_path, 'r') as tar: tar.extractall(output_folder)
DecompressExtract ==
    /\ pc = "decompress_extract"
    /\ \/ /\ outFolder' = "extracted"
          /\ Touch({"folder"})
          /\ UNCHANGED exc
       \/ /\ exc' = TRUE
          /\ \/ UNCHANGED <<outFolder, written>>
             \/ outFolder' \in {"created", "partial"} /\ Touch({"folder"})
    /\ pc' = "decompress_finally"
    /\ Step("extract")
    /\ UNCHANGED <<start, cmd, tools, exitStatus, tarFile, zstFile, rawFile, metaFile,
                   mkvFile, locals, zstOut, after>>

\* finally: if temp_tar_path.exists(): temp_tar_path.unlink()
DecompressFinally ==
    /\ pc = "decompress_finally"
    /\ tarFile' = Unlink(tarFile)
    /\ pc' = "decode_main_finally"
    /\ UNCHANGED <<start, cmd, tools, exc, exitStatus, zstFile, rawFile, metaFile,
                   mkvFile, outFolder, locals, trace, written, zstOut, after>>

\* main: finally: if temp_zst.exists(): temp_zst.unlink()
DecodeMainFinally ==
    /\ pc = "decode_main_finally"
    /\ zstFile' = Unlink(zstFile)
    /\ pc' = "exit"
    /\ exitStatus' = IF exc THEN 1 ELSE 0
    /\ UNCHANGED <<start, cmd, tools, exc, tarFile, rawFile, metaFile, mkvFile,
                   outFolder, locals, trace, written, zstOut, after>>

(***************************************************************************)
(* The user decodes what an encode run left at the prefix: a second        *)
(* invocation of main(), with command decode, over the same files.  The    *)
(* temporary files of a process have fresh names: tarFile and rawFile of   *)
(* the new run start absent, whatever the earlier run left in the          *)
(* temporary directory.                                                    *)
(***************************************************************************)
DecodeAfterEncode ==
    /\ pc = "exit"
    /\ cmd = "encode"
    /\ cmd' = "decode"
    /\ after' = IF exitStatus = 0 THEN "encode_done" ELSE "encode_failed"
    /\ pc' = "main"
    /\ exc' = FALSE
    /\ exitStatus' = -1
    /\ data' = <<>> /\ original_size' = 0 /\ num_frames' = 0
    /\ padded' = <<>> /\ restored' = <<>>
    /\ trace' = <<>>
    /\ written' = {}
    /\ tarFile' = Absent
    /\ rawFile' = Absent
    /\ start' = <<Absent, zstFile, Absent, metaFile, mkvFile, outFolder>>
    /\ UNCHANGED <<tools, zstFile, metaFile, mkvFile, outFolder, zstOut>>

Next ==
    \/ CheckTools
    \/ Dispatch
    \/ CompressMkstemp
    \/ CompressTar
    \/ CompressZstd
    \/ CompressFinally
    \/ EncodePack
    \/ EncodeWriteRaw
    \/ EncodeWriteMeta
    \/ EncodeFfmpeg
    \/ EncodeFinally
    \/ EncodeMainFinally
    \/ DecodeMktemp
    \/ DecodeFfmpeg
    \/ DecodeReadMeta
    \/ DecodeUnpack
    \/ DecodeWrite
    \/ DecodeFinally
    \/ DecompressMkstemp
    \/ DecompressZstd
    \/ DecompressExtract
    \/ DecompressFinally
    \/ DecodeMainFinally
    \/ DecodeAfterEncode

Spec == Init /\ [][Next]_vars

(***************************************************************************)
(* Properties.                                                             *)
(***************************************************************************)
Did(name) == \E i \in 1..Len(trace) : trace[i] = name
FailedAt(name) == exc /\ trace # <<>> /\ trace[Len(trace)] = name
FileAt(path) ==
    CASE path = "tar" -> tarFile
      [] path = "zst" -> zstFile
      [] path = "raw" -> rawFile
      [] path = "meta" -> metaFile
      [] path = "mkv" -> mkvFile
Temporaries == {"tar", "zst", "raw"}
\* The temporary files this run created that still exist.
TemporariesLeft == {p \in Temporaries \cap written : Exists(FileAt(p))}

\* C1: round trip of the framing layer.  When decode runs on what a
\* successful encode wrote (lossless codec), the payload it restores, and
\* writes to the restored .zst file, is exactly the payload encode packed,
\* for every payload, the empty one and whole multiples of the frame size
\* included.
RoundTrip ==
    (cmd = "decode" /\ after = "encode_done") =>
        /\ Did("unpack") => restored = Content(zstOut)
        /\ (Did("write_zst") /\ ~exc /\ pc = "decode_finally")
              => zstFile = File(Content(zstOut))
RoundTripWitness ==
    /\ cmd = "decode" /\ after = "encode_done" /\ Did("write_zst") /\ ~exc
    /\ pc = "decode_finally"
    /\ Len(restored) = BYTES_PER_FRAME
    /\ restored[Len(restored)] = 0
    /\ restored[1] = 255

\* C2: frame count minimality.  After packing a payload of length L, the
\* frame count N is the least N with N*F >= L (N*F >= L and N*F - F < L), the
\* padded stream has length N*F, L = 0 gives N = 0 and an empty stream, and
\* L = k*F gives N = k and no padding.
FrameCountMinimal ==
    (cmd = "encode" /\ Did("pack")) =>
        LET L == Len(Content(zstOut))
            N == num_frames
            F == BYTES_PER_FRAME
        IN /\ original_size = L
           /\ N * F >= L
           /\ N * F - F < L
           /\ Len(padded) = N * F
           /\ L = 0 => (N = 0 /\ padded = <<>>)
           /\ \A k \in 1..L : L = k * F => (N = k /\ padded = Content(zstOut))
FrameCountMinimalWitness ==
    /\ cmd = "encode" /\ Did("pack")
    /\ original_size = MaxLen - (MaxLen % BYTES_PER_FRAME)
    /\ original_size >= BYTES_PER_FRAME
    /\ num_frames = original_size \div BYTES_PER_FRAME
    /\ padded = data

\* C3: padding content.  The padded stream starts with the payload, every
\* byte after the payload is zero, there are N*F - L padding bytes, and this
\* is the stream written to the temporary raw file.
PaddingContent ==
    (cmd = "encode" /\ Did("pack")) =>
        LET b == Content(zstOut)
        IN /\ Len(padded) >= Len(b)
           /\ SubSeq(padded, 1, Len(b)) = b
           /\ \A i \in (Len(b) + 1)..Len(padded) : padded[i] = 0
           /\ Len(padded) - Len(b) = num_frames * BYTES_PER_FRAME - Len(b)
           /\ pc \in {"encode_meta", "encode_ffmpeg"} => rawFile = File(padded)
PaddingContentWitness ==
    /\ cmd = "encode" /\ pc = "encode_meta"
    /\ Len(data) % BYTES_PER_FRAME = 1
    /\ data[Len(data)] = 255
    /\ Len(padded) = Len(data) + BYTES_PER_FRAME - 1
    /\ padded[Len(padded)] = 0

\* C4: truncated-input detection.  When the decoded frame stream is shorter
\* than the original size of the metadata, unpacking raises, and no restored
\* payload is written.
TruncatedInputDetected ==
    (cmd = "decode" /\ Did("unpack") /\ Len(data) < original_size) =>
        /\ exc
        /\ "zst" \notin written

\* The metadata record is missing or malformed: no file, fewer than two
\* lines, or a line that is no integer.
MetaCorrupt(f) ==
    \/ ~Exists(f)
    \/ LET lines == MetaLines(Content(f))
       IN \/ Len(lines) < 2
          \/ IntOf(lines[1]) = <<>>
          \/ IntOf(lines[2]) = <<>>

\* C5: the metadata is validated before the codec runs.  In a decode run
\* the video decoder is invoked only after the metadata was read, and never
\* when the metadata file is missing or malformed.
MetaCheckedBeforeCodec ==
    (cmd = "decode" /\ Did("ffmpeg")) =>
        /\ Did("read_meta")
        /\ ~MetaCorrupt(start[4])

\* C6: a metadata file of one line (a valid original size, no frame count)
\* makes decode fail: it exits non-zero, writes no restored payload and
\* extracts nothing.
OneLineMeta(f) ==
    /\ Exists(f)
    /\ Len(MetaLines(Content(f))) = 1
    /\ IntOf(MetaLines(Content(f))[1]) # <<>>
OneLineMetaFails ==
    (cmd = "decode" /\ OneLineMeta(start[4])) =>
        /\ pc = "exit" => exitStatus # 0
        /\ "zst" \notin written
        /\ "folder" \notin written

\* C7: encode cleans up its temporaries on every path.  When an encode run
\* has terminated, none of the temporary files it created (tar archive,
\* <prefix>.zst, .rgb frame stream) exists.
EncodeCleansUp ==
    (cmd = "encode" /\ pc = "exit") => TemporariesLeft = {}

\* C8: decode cleans up its temporaries on every path.  When a decode run
\* has terminated, none of the temporary files it created (.rgb frame
\* stream, <output-folder>.zst, tar archive) exists.
DecodeCleansUp ==
    (cmd = "decode" /\ pc = "exit") => TemporariesLeft = {}
DecodeCleansUpWitness ==
    /\ cmd = "decode" /\ pc = "exit" /\ exitStatus = 1
    /\ Temporaries \subseteq written
    /\ FailedAt("extract")
    /\ TemporariesLeft = {}

\* C9: a failed encode leaves the output untouched.  When zstd or ffmpeg
\* failed during encode, at termination neither <prefix>.mkv nor
\* <prefix>.meta was created or modified by the run.
FailedEncodeLeavesOutput ==
    (cmd = "encode" /\ pc = "exit" /\ (FailedAt("zstd") \/ FailedAt("ffmpeg"))) =>
        /\ "meta" \notin written /\ metaFile = start[4]
        /\ "mkv" \notin written /\ mkvFile = start[5]

\* C10: missing tools fail fast.  When ffmpeg or zstd is unavailable, an
\* encode or decode run starts no pipeline stage, creates, writes and deletes
\* no file or directory, and ends with exit status 1.
MissingToolsFailFast ==
    (cmd \in {"encode", "decode"} /\ ~(required_tools \subseteq tools)) =>
        /\ pc \in {"main", "exit"}
        /\ files = start
        /\ written = {}
        /\ \A i \in 1..Len(trace) : trace[i] = "check_tools"
        /\ pc = "exit" => exitStatus = 1
MissingToolsFailFastWitness ==
    /\ cmd = "decode" /\ tools = {"ffmpeg"}
    /\ pc = "exit" /\ exitStatus = 1
    /\ Exists(zstFile) /\ Exists(mkvFile) /\ Exists(metaFile)

\* Positions of a run that is unwinding or has ended.
AbortPcs == {"compress_finally", "encode_finally", "encode_main_finally",
             "decode_finally", "decompress_finally", "decode_main_finally",
             "exit"}
ToolFailed == FailedAt("zstd") \/ FailedAt("ffmpeg")

\* C11: a stage failure aborts the pipeline.  Once zstd or ffmpeg exited
\* non-zero, in encode and in decode, the run only unwinds: it takes no
\* further step of the pipeline (no later stage, no retry of the failed
\* one), the exception keeps propagating, and the run ends with exit
\* status 1.
StageFailureAborts ==
    /\ [](ToolFailed => /\ pc \in AbortPcs
                        /\ pc = "exit" => exitStatus = 1)
    /\ [][(ToolFailed /\ pc # "exit") => (exc' /\ trace' = trace)]_vars
StageFailureAbortsWitness ==
    /\ cmd = "decode" /\ pc = "exit" /\ exitStatus = 1
    /\ FailedAt("zstd")
    /\ "zst" \in written
    /\ outFolder = "absent"

\* C12: metadata round trip.  When decode runs on the metadata record a
\* successful encode wrote for (L, N), the pair it has after reading the
\* record is (L, N): the original size and the frame count.
MetadataRoundTrip ==
    (cmd = "decode" /\ after = "encode_done" /\ Did("read_meta")
        /\ ~FailedAt("read_meta")) =>
        /\ original_size = Len(Content(zstOut))
        /\ num_frames = NumFrames(Len(Content(zstOut)))

\* What a decode run over the frame stream frames restores when its
\* metadata file holds text.
RestoredFrom(frames, text) == Truncate(frames, ReadOriginalSize(text)[1])
\* The metadata files that have the first line of text.
SameFirstLine(text) ==
    {m \in MetaInputs : MetaLines(m)[1] = MetaLines(text)[1]}

\* C13: the original size alone decides the truncation.  A decode run over
\* the same frame stream with any metadata file that has the same first
\* line L (another frame count, extra lines) restores the same payload, and
\* the payload restored is the first L bytes of the frame stream: exactly L
\* bytes.
OriginalSizeDecides ==
    (cmd = "decode" /\ Did("unpack") /\ original_size >= 0) =>
        /\ \A m \in SameFirstLine(Content(metaFile)) :
              RestoredFrom(data, m) = restored
        /\ Len(restored) = original_size
        /\ \A i \in 1..original_size : restored[i] = data[i]

\* The stage of the encode pipeline a step belongs to.
StageOf(step) ==
    CASE step \in {"mkstemp_tar", "tar"} -> "Archiving"
      [] step = "zstd" -> "Compressing"
      [] step \in {"pack", "write_raw"} -> "Packing"
      [] step \in {"write_meta", "ffmpeg"} -> "Encoding"
      [] OTHER -> "Idle"
\* The stages a run has entered, in order: one entry each time the run
\* moves to another stage.
RECURSIVE StagesOf(_)
StagesOf(steps) ==
    IF steps = <<>> THEN <<>>
    ELSE LET before == StagesOf(SubSeq(steps, 1, Len(steps) - 1))
             stage == StageOf(steps[Len(steps)])
         IN IF stage = "Idle" \/ (before # <<>> /\ before[Len(before)] = stage)
            THEN before
            ELSE Append(before, stage)
EncodeStages == <<"Archiving", "Compressing", "Packing", "Encoding">>
IsPrefix(s, t) == Len(s) <= Len(t) /\ SubSeq(t, 1, Len(s)) = s
\* Positions of an encode run at which a step that can fail is next.
EncodeFalliblePcs == {"compress_mkstemp", "compress_tar", "compress_zstd",
                      "encode_raw", "encode_meta", "encode_ffmpeg"}

\* C14: encode stage order.  An encode run enters its stages in the order
\* Archiving, Compressing, Packing, Encoding, none skipped or entered twice;
\* a stage is entered only while no failure is pending; the run ends Done
\* (exit status 0) only with all four stages done and no failure, and Failed
\* (exit status 1) after a failure; in every stage a failing step is
\* possible, and from Idle when a tool is missing; after Done or Failed the
\* run takes no further step (only a new invocation follows).
EncodeStageOrder ==
    /\ [](cmd = "encode" =>
            /\ IsPrefix(StagesOf(trace), EncodeStages)
            /\ (pc = "exit" /\ exitStatus = 0) =>
                  (StagesOf(trace) = EncodeStages /\ ~exc)
            /\ (pc = "exit" /\ exc) => exitStatus = 1
            /\ pc = "exit" => exitStatus \in {0, 1}
            /\ pc \in EncodeFalliblePcs => ENABLED (Next /\ exc')
            /\ (pc = "main" /\ ~(required_tools \subseteq tools))
                  => ENABLED (CheckTools /\ exitStatus' = 1))
    /\ [][(cmd = "encode" /\ trace' # trace /\ pc # "exit") => ~exc]_vars
    /\ [][(cmd = "encode" /\ pc = "exit") => (cmd' = "decode" /\ pc' = "main")]_vars
EncodeStageOrderWitness ==
    /\ cmd = "encode" /\ pc = "exit" /\ exitStatus = 0
    /\ StagesOf(trace) = EncodeStages
    /\ Exists(mkvFile) /\ Len(Content(mkvFile)) = 2 * BYTES_PER_FRAME

\* C15: the video never exists without its metadata.  In an encode run,
\* once ffmpeg has been invoked, <prefix>.meta has been written by this run
\* and holds the complete record: two lines, this run's original size and
\* frame count, and the trailing newline.
VideoHasMetadata ==
    (cmd = "encode" /\ Did("ffmpeg")) =>
        /\ "meta" \in written
        /\ Exists(metaFile)
        /\ LET text == Content(metaFile)
               lines == MetaLines(text)
           IN /\ text # <<>> /\ text[Len(text)] = "\n"
              /\ Len(lines) = 2
              /\ IntOf(lines[1]) = <<Len(Content(zstOut))>>
              /\ IntOf(lines[2]) = <<num_frames>>
              /\ num_frames * BYTES_PER_FRAME = Len(padded)
VideoHasMetadataWitness ==
    /\ cmd = "encode" /\ pc = "exit" /\ FailedAt("ffmpeg")
    /\ start[4] = Absent /\ Exists(metaFile)
    /\ num_frames = 2
    /\ Exists(mkvFile) /\ Content(mkvFile) = <<>>

\* C16: the intermediate compressed file is removed unconditionally.  Once
\* the tool check has passed, when an encode run or a decode run has
\* terminated no file exists at temp_zst (<prefix>.zst, <output-folder>.zst),
\* also when a file was there before the run and when the run failed before
\* it wrote that path.
ZstRemovedUnconditionally ==
    (cmd \in {"encode", "decode"} /\ required_tools \subseteq tools
        /\ pc = "exit") => zstFile = Absent
ZstRemovedUnconditionallyWitness ==
    /\ cmd = "decode" /\ pc = "exit" /\ exitStatus = 1
    /\ start[2] = File(OldZst)
    /\ "zst" \notin written
    /\ zstFile = Absent

====
